---- MODULE Spec2Model ----
(***************************************************************************)
(* Model of python_scripts/metrics_ex_01.py (exercise M7.02): a notebook   *)
(* run cell by cell.  The state is the notebook's global namespace, the    *)
(* position of the run, the text printed so far and the progress of the    *)
(* one cross_val_score call the notebook makes.  The outcome of fitting    *)
(* and scoring a split is decided inside scikit-learn, so it is an input   *)
(* of the model: every split may succeed or raise.                         *)
(***************************************************************************)
EXTENDS Integers, Sequences, FiniteSets, TLC

VARIABLES
    csv,         \* the file ../datasets/blood_transfusion.csv
    pc,          \* the statement the run executes next
    ns,          \* the notebook's global namespace: name -> value
    stdout,      \* the lines printed so far
    cv_split,    \* inside cross_val_score: the split evaluated next (0: not in the call)
    cv_results,  \* inside cross_val_score: the scores of the splits evaluated so far
    raised       \* the last exception raised in the run

vars == <<csv, pc, ns, stdout, cv_split, cv_results, raised>>

(* ------------------------------ bounds --------------------------------- *)

MaxRows == 2

(* ------------------------- the dataset file ---------------------------- *)

\* The file is not part of the script; its shape is the documented one: a
\* header row with a "Class" column and numeric feature columns, and the
\* two class values under "Class".
ClassValues == {"donated", "not donated"}

\* Two numeric feature columns stand for the file's feature columns.
FeatureNames == <<"Recency", "Frequency">>

FeatureFields == {"0", "1"}

\* The header rows: the feature columns in their order, "Class" at any place.
Headers ==
    { [j \in 1..(Len(FeatureNames) + 1) |->
          IF j < p THEN FeatureNames[j]
          ELSE IF j = p THEN "Class" ELSE FeatureNames[j - 1]]
      : p \in 1..(Len(FeatureNames) + 1) }

\* The records a header admits: text fields, a class value under "Class".
RecordsOf(header) ==
    { r \in [1..Len(header) -> FeatureFields \cup ClassValues] :
        \A j \in 1..Len(header) :
            (header[j] = "Class") <=> (r[j] \in ClassValues) }

CsvFiles ==
    UNION { { [header |-> h, records |-> rs] :
                rs \in UNION { [1..n -> RecordsOf(h)] : n \in 0..MaxRows } }
            : h \in Headers }

(* ------------------------------ pandas --------------------------------- *)

Unbound == [kind |-> "unbound"]

\* read_csv infers a field's type: digits become an integer, other text stays text.
ParseField(f) ==
    IF f = "0" THEN [dtype |-> "int64", int |-> 0, str |-> ""]
    ELSE IF f = "1" THEN [dtype |-> "int64", int |-> 1, str |-> ""]
    ELSE [dtype |-> "object", int |-> 0, str |-> f]

read_csv(file) ==
    [kind    |-> "DataFrame",
     columns |-> file.header,
     index   |-> [i \in 1..Len(file.records) |-> i - 1],
     values  |-> [i \in 1..Len(file.records) |->
                    [j \in 1..Len(file.header) |-> ParseField(file.records[i][j])]]]

HasColumn(df, c) == \E j \in 1..Len(df.columns) : df.columns[j] = c

ColumnPosition(df, c) == CHOOSE j \in 1..Len(df.columns) : df.columns[j] = c

\* The positions of the columns that drop(columns=c) keeps, in order.
KeptPositions(df, c) ==
    SelectSeq([j \in 1..Len(df.columns) |-> j], LAMBDA j : df.columns[j] # c)

\* A positional slip: the last column is dropped whatever its name.
drop_last(df, c) ==
    [kind    |-> "DataFrame",
     columns |-> SubSeq(df.columns, 1, Len(df.columns) - 1),
     index   |-> df.index,
     values  |-> [i \in 1..Len(df.values) |->
                    SubSeq(df.values[i], 1, Len(df.columns) - 1)]]

\* df.drop(columns=c): a new table without column c; df itself is unchanged.
drop(df, c) ==
    LET keep == KeptPositions(df, c)
    IN  [kind    |-> "DataFrame",
         columns |-> [k \in 1..Len(keep) |-> df.columns[keep[k]]],
         index   |-> df.index,
         values  |-> [i \in 1..Len(df.values) |->
                        [k \in 1..Len(keep) |-> df.values[i][keep[k]]]]]

\* A positional slip: the first column is taken whatever its name.
getitem_first(df, c) ==
    [kind   |-> "Series",
     name   |-> df.columns[1],
     index  |-> df.index,
     values |-> [i \in 1..Len(df.values) |-> df.values[i][1]]]

\* df[c]: the column named c, with the table's index.
getitem(df, c) ==
    [kind   |-> "Series",
     name   |-> c,
     index  |-> df.index,
     values |-> [i \in 1..Len(df.values) |-> df.values[i][ColumnPosition(df, c)]]]

(* --------------------------- the namespace ----------------------------- *)

Names == {"blood_transfusion", "data", "target", "tree", "scores", "exc"}

Assign(n, name, value) == [n EXCEPT ![name] = value]

blood_transfusion == ns["blood_transfusion"]
data == ns["data"]
target == ns["target"]
tree == ns["tree"]
scores == ns["scores"]

(* ----------------------------- exceptions ------------------------------ *)

NoException == [type |-> "None", msg |-> ""]

\* What the cross_val_score call may raise: a ValueError or another error.
CallErrors ==
    { [type |-> t, msg |-> m] : t \in {"ValueError", "TypeError"},
                                m \in {"message a", "message b"} }

KeyError(c) == [type |-> "KeyError", msg |-> c]

(* ------------------------------- cells --------------------------------- *)

LoadingCell == {"L26", "L27", "L28"}

PlaceholderCells == {"L40", "L50", "L56", "L98", "L105", "L117"}

\* The statement that follows a placeholder cell.
NextCell(p) ==
    CASE p = "L40" -> "L50"
      [] p = "L50" -> "L56"
      [] p = "L56" -> "L70"
      [] p = "L98" -> "L105"
      [] p = "L105" -> "L117"
      [] p = "L117" -> "done"

AfterPrecisionCell == {"L98", "L105", "L117", "done"}

Init ==
    /\ csv \in CsvFiles
    /\ pc = "L26"
    /\ ns = [n \in Names |-> Unbound]
    /\ stdout = << >>
    /\ cv_split = 0
    /\ cv_results = << >>
    /\ raised = NoException

\* line 26
ReadCsv ==
    /\ pc = "L26"
    /\ ns' = Assign(ns, "blood_transfusion", read_csv(csv))
    /\ pc' = "L27"
    /\ UNCHANGED <<csv, stdout, cv_split, cv_results, raised>>

\* line 27
DropClass ==
    /\ pc = "L27"
    /\ IF HasColumn(blood_transfusion, "Class")
       THEN /\ ns' = Assign(ns, "data", drop(blood_transfusion, "Class"))
            /\ pc' = "L28"
            /\ UNCHANGED raised
       ELSE /\ raised' = KeyError("Class")
            /\ pc' = "aborted"
            /\ UNCHANGED ns
    /\ UNCHANGED <<csv, stdout, cv_split, cv_results>>

\* line 28
SelectClass ==
    /\ pc = "L28"
    /\ IF HasColumn(blood_transfusion, "Class")
       THEN /\ ns' = Assign(ns, "target", getitem(blood_transfusion, "Class"))
            /\ pc' = "L40"
            /\ UNCHANGED raised
       ELSE /\ raised' = KeyError("Class")
            /\ pc' = "aborted"
            /\ UNCHANGED ns
    /\ UNCHANGED <<csv, stdout, cv_split, cv_results>>

\* a cell that holds only the comment "Write your code here."
PlaceholderCell ==
    /\ pc \in PlaceholderCells
    /\ pc' = NextCell(pc)
    /\ UNCHANGED <<csv, ns, stdout, cv_split, cv_results, raised>>

(* ---------------------- the precision cell ----------------------------- *)

DecisionTreeClassifier == [kind |-> "DecisionTreeClassifier"]

\* cross_val_score(..., cv=10, ...): the number of splits.
cv == 10

\* cross_val_score(..., error_score="raise"): a failing split raises.
error_score == "raise"

\* The score of split k (its value is scikit-learn's; the model keeps which split it is).
Score(k) == k

ndarray(values) == [kind |-> "ndarray", values |-> values]

\* The assignment binds the name whether or not the call returned.
AssignScoresAlways(n, outcome) == Assign(n, "scores", ndarray(outcome.value))

\* scores = cross_val_score(...): the name is bound only if the call returns.
AssignScores(n, outcome) ==
    IF outcome.kind = "returned"
    THEN Assign(n, "scores", ndarray(outcome.value))
    ELSE n

\* The handler names another exception class.
ExceptMatchesTypeError(e) == e.type = "TypeError"

\* except ValueError
ExceptMatches(e) == e.type = "ValueError"

str(e) == e.msg

\* The handler re-encodes the labels as 0/1 before leaving.
ExceptBlockExitRelabels(n) ==
    Assign(Assign(n, "exc", Unbound), "target",
           [n["target"] EXCEPT !.values =
               [i \in 1..Len(n["target"].values) |->
                   [dtype |-> "int64",
                    int |-> IF n["target"].values[i].str = "donated" THEN 1 ELSE 0,
                    str |-> ""]]])

\* Leaving the except block unbinds the name given by "as exc".
ExceptBlockExit(n) == Assign(n, "exc", Unbound)

\* line 70
BindTree ==
    /\ pc = "L70"
    /\ ns' = Assign(ns, "tree", DecisionTreeClassifier)
    /\ pc' = "L72"
    /\ UNCHANGED <<csv, stdout, cv_split, cv_results, raised>>

\* lines 72-74: the call starts with its first split
EnterCrossValScore ==
    /\ pc = "L72"
    /\ cv_split = 0
    /\ cv_split' = 1
    /\ cv_results' = << >>
    /\ UNCHANGED <<csv, pc, ns, stdout, raised>>

\* lines 72-74: the call raises before any split is evaluated
CrossValScoreRejects(e) ==
    /\ pc = "L72"
    /\ cv_split = 0
    /\ raised' = e
    /\ ns' = AssignScores(ns, [kind |-> "raised", value |-> cv_results])
    /\ pc' = "L75"
    /\ UNCHANGED <<csv, stdout, cv_split, cv_results>>

\* lines 72-74: a split is fitted and scored
SplitScored ==
    /\ pc = "L72"
    /\ cv_split \in 1..cv
    /\ cv_results' = Append(cv_results, Score(cv_split))
    /\ cv_split' = cv_split + 1
    /\ UNCHANGED <<csv, pc, ns, stdout, raised>>

\* lines 72-74: fitting or scoring a split fails, and error_score="raise" raises it
SplitFails(e) ==
    /\ pc = "L72"
    /\ cv_split \in 1..cv
    /\ error_score = "raise"
    /\ raised' = e
    /\ ns' = AssignScores(ns, [kind |-> "raised", value |-> cv_results])
    /\ cv_split' = 0
    /\ cv_results' = << >>
    /\ pc' = "L75"
    /\ UNCHANGED <<csv, stdout>>

\* lines 72-74: every split was scored; the call returns and scores is bound
CrossValScoreReturns ==
    /\ pc = "L72"
    /\ cv_split = cv + 1
    /\ ns' = AssignScores(ns, [kind |-> "returned", value |-> cv_results])
    /\ cv_split' = 0
    /\ cv_results' = << >>
    /\ pc' = "L98"
    /\ UNCHANGED <<csv, stdout, raised>>

\* line 75: the except clause takes the exception, or lets it leave the cell
ExceptValueError ==
    /\ pc = "L75"
    /\ IF ExceptMatches(raised)
       THEN /\ ns' = Assign(ns, "exc", raised)
            /\ pc' = "L76"
       ELSE /\ pc' = "aborted"
            /\ UNCHANGED ns
    /\ UNCHANGED <<csv, stdout, cv_split, cv_results, raised>>

\* line 76
PrintExc ==
    /\ pc = "L76"
    /\ stdout' = Append(stdout, str(ns["exc"]))
    /\ ns' = ExceptBlockExit(ns)
    /\ pc' = "L98"
    /\ UNCHANGED <<csv, cv_split, cv_results, raised>>

Next ==
    \/ ReadCsv
    \/ DropClass
    \/ SelectClass
    \/ PlaceholderCell
    \/ BindTree
    \/ EnterCrossValScore
    \/ \E e \in CallErrors : CrossValScoreRejects(e)
    \/ SplitScored
    \/ \E e \in CallErrors : SplitFails(e)
    \/ CrossValScoreReturns
    \/ ExceptValueError
    \/ PrintExc

Spec == Init /\ [][Next]_vars

(* ------------------------------ claims --------------------------------- *)

\* The loading cell has run to its end.
Loaded == pc \notin LoadingCell /\ raised.type # "KeyError"

\* C2: when the cross_val_score call raises a ValueError, the except clause
\* takes it: the run is never aborted by it, nothing is printed before the
\* handler's print, and once the cell is left its message has been printed
\* exactly once and the run goes on with the following cells.
C2_ValueErrorCaughtAndPrintedOnce ==
    raised.type = "ValueError" =>
        /\ pc \in {"L75", "L76"} \cup AfterPrecisionCell
        /\ pc \in {"L75", "L76"} => stdout = << >>
        /\ pc \in AfterPrecisionCell => stdout = << raised.msg >>
        /\ pc = "L76" => ns["exc"] = raised

\* C2 witness: a ValueError was raised and the run reached its end.
C2_Witness ==
    /\ raised.type = "ValueError"
    /\ pc = "done"
    /\ Len(stdout) = 1

\* C5: after the loading cell, data and target have as many rows as the CSV
\* file has records, share one index, row i of each comes from record i of
\* the file, and every value of target is "donated" or "not donated".
C5_RowsAlignedAndLabelsBinary ==
    Loaded =>
        /\ data.kind = "DataFrame"
        /\ target.kind = "Series"
        /\ Len(data.values) = Len(csv.records)
        /\ Len(target.values) = Len(data.values)
        /\ data.index = target.index
        /\ \A i \in 1..Len(csv.records) :
              /\ data.index[i] = i - 1
              /\ target.values[i].dtype = "object"
              /\ target.values[i].str \in ClassValues
              /\ \E j \in 1..Len(csv.header) :
                    /\ csv.header[j] = "Class"
                    /\ target.values[i].str = csv.records[i][j]
              /\ \A k \in 1..Len(data.columns) :
                    \E j \in 1..Len(csv.header) :
                        /\ csv.header[j] = data.columns[k]
                        /\ data.values[i][k] = ParseField(csv.records[i][j])

\* C5 witness: a file with two records of different classes has been loaded.
C5_Witness ==
    /\ Loaded
    /\ Len(csv.records) >= 2
    /\ target.kind = "Series"
    /\ target.values[1].str = "donated"
    /\ target.values[2].str = "not donated"

\* C6: each of blood_transfusion, data and target is bound by its own
\* statement of the loading cell and by nothing else: no later step, the
\* failing cross_val_score call and the except branch included, changes them,
\* and the file is not changed either.
C6_DatasetImmutable ==
    [][ /\ pc # "L26" => blood_transfusion' = blood_transfusion
        /\ pc # "L27" => data' = data
        /\ pc # "L28" => target' = target
        /\ csv' = csv ]_vars

\* C6 witness: the call failed, the except branch ran, and the dataset is
\* still the one that was loaded.
C6_Witness ==
    /\ pc \in AfterPrecisionCell
    /\ raised.type = "ValueError"
    /\ Len(stdout) = 1
    /\ Len(csv.records) >= 1
    /\ blood_transfusion = read_csv(csv)
    /\ target.kind = "Series"
    /\ data.kind = "DataFrame"

\* C8: data holds every column of the loaded table except "Class", in the
\* table's order and with the table's values and index; data has no "Class"
\* column; target is the table's "Class" column.
C8_FeaturesSplitFromLabel ==
    Loaded =>
        /\ data.columns = SelectSeq(blood_transfusion.columns, LAMBDA c : c # "Class")
        /\ ~ HasColumn(data, "Class")
        /\ data.index = blood_transfusion.index
        /\ Len(data.values) = Len(blood_transfusion.values)
        /\ \A i \in 1..Len(blood_transfusion.values) :
              \A k \in 1..Len(data.columns) :
                  \E j \in 1..Len(blood_transfusion.columns) :
                      /\ blood_transfusion.columns[j] = data.columns[k]
                      /\ data.values[i][k] = blood_transfusion.values[i][j]
        /\ target.name = "Class"
        /\ target.index = blood_transfusion.index
        /\ Len(target.values) = Len(blood_transfusion.values)
        /\ \A i \in 1..Len(blood_transfusion.values) :
              \E j \in 1..Len(blood_transfusion.columns) :
                  /\ blood_transfusion.columns[j] = "Class"
                  /\ target.values[i] = blood_transfusion.values[i][j]

\* C8 witness: a table whose "Class" column stands between two feature
\* columns has been split.
C8_Witness ==
    /\ pc = "L40"
    /\ blood_transfusion.columns[2] = "Class"
    /\ Len(blood_transfusion.values) >= 1
    /\ Len(data.columns) = 2

\* C10: scores is bound only by a call that returned, with the scores of all
\* cv splits; while the call runs and after it raised, scores is unbound and
\* holds no partial result.
C10_ScoresBoundOnlyOnReturn ==
    /\ raised.type \in {"ValueError", "TypeError"} => scores.kind = "unbound"
    /\ pc \in {"L72", "L75", "L76", "aborted"} => scores.kind = "unbound"
    /\ scores.kind # "unbound" =>
          /\ scores = ndarray([k \in 1..cv |-> Score(k)])
          /\ raised = NoException
          /\ pc \in AfterPrecisionCell

\* C10 witness: the call raised and was handled, and scores is unbound.
C10_Witness ==
    /\ raised.type = "ValueError"
    /\ pc = "L98"
    /\ scores.kind = "unbound"
    /\ stdout # << >>

====
